---- MODULE Spec2Model ----
(***************************************************************************)
(* FM-index query engine of nvbio (nvbio/fmindex/fmindex_inl.h): rank,     *)
(* rank4, backward search (match, match_reverse) and coordinate recovery   *)
(* (locate) over an immutable index made of a BWT without its sentinel,    *)
(* the primary row, the per-symbol counts, the L2 table, a rank dictionary *)
(* and a sampled suffix array.                                             *)
(*                                                                         *)
(* Rows and text coordinates are 0-based as in the code; TLA+ sequences    *)
(* are 1-based, so bwt[k] of the code is f.bwt[k+1] here.                  *)
(***************************************************************************)
EXTENDS Integers, Sequences, FiniteSets, TLC

\* ------------------------------------------------------------------ bounds
\* longest text the index is built over
MaxLen == 3
\* longest pattern searched
MaxPatLen == 3
\* largest sampling interval of the sampled suffix array
MaxK == 2
\* width of index_type in bits (uint32 in the code; the model keeps the
\* wrap-around of unsigned arithmetic at a narrower word)
IndexBits == 8
\* longest pattern searched step by step
StepPatLen == 2
\* longest text and longest pattern of the concurrent queries
ConcLen == 2
ConcPatLen == 1

\* --------------------------------------------------------------- alphabet
\* largest symbol of the alphabet: `if (c > 3)` in match / match_reverse
MaxSym == 3
Sigma == 0..MaxSym
\* pattern symbols: the alphabet plus one code > 3 (an N)
PatSyms == 0..(MaxSym + 1)

\* ------------------------------------------------ index_type arithmetic
IndexMod == 2^IndexBits
\* index_type(-1)
NegOne == IndexMod - 1
\* --k on an index_type
Dec(k) == (k + IndexMod - 1) % IndexMod
\* a + b on index_type
Add(a, b) == (a + b) % IndexMod

Seqs(S, n) == UNION {[1..m -> S] : m \in 0..n}

VARIABLES
    text,   \* the text the index was built over (kept as the test oracle)
    SA,     \* its full suffix array, rows 0..L (construction stage, oracle)
    fmi,    \* the fm_index: length, primary, bwt, count, L2, sa
    op,     \* the query that ran: "idle" before any
    arg,    \* its arguments
    ret,    \* its return value
    thr     \* per thread: the query it runs step by step, with its locals

vars == <<text, SA, fmi, op, arg, ret, thr>>

\* the threads querying the one index
Threads == {1, 2}

\* a thread that runs no query; ret holds a returned index_type, ret_range a
\* returned range_type
IdleThread ==
    [pc |-> "idle", op |-> "none", pattern |-> <<>>, pattern_len |-> 0,
     i |-> 0, range |-> [x |-> 0, y |-> 0], row |-> 0, j |-> 0, t |-> 0,
     ret |-> 0, ret_range |-> [x |-> 0, y |-> 0]]

\* --------------------------------------------------- construction stage
\* suffix p of T$ sorts before suffix q ($ is the smallest symbol; suffix
\* Len(T) is the bare sentinel)
RECURSIVE SufLess(_, _, _)
SufLess(T, p, q) ==
    IF p = q THEN FALSE
    ELSE IF p = Len(T) THEN TRUE
    ELSE IF q = Len(T) THEN FALSE
    ELSE IF T[p + 1] < T[q + 1] THEN TRUE
    ELSE IF T[p + 1] > T[q + 1] THEN FALSE
    ELSE SufLess(T, p + 1, q + 1)

\* the suffix array of T$: row i holds the start of the i-th smallest suffix
SuffixArray(T) ==
    [i \in 0..Len(T) |->
        CHOOSE p \in 0..Len(T) :
            Cardinality({q \in 0..Len(T) : SufLess(T, q, p)}) = i]

\* number of c in the stored BWT
CountOf(b, c) == Cardinality({k \in 1..Len(b) : b[k] = c})

\* the L2 table: number of symbols smaller than c
L2Of(b) == [c \in Sigma |-> Cardinality({k \in 1..Len(b) : b[k] < c})]

\* the sampled suffix array: the rows whose text coordinate is a multiple
\* of the sampling interval K, each with its coordinate
SampledSA(sa, K) ==
    [r \in {i \in DOMAIN sa : sa[i] % K = 0} |-> sa[r]]

\* the index of text T with sampling interval K
BuildIndex(T, K) ==
    LET L   == Len(T)
        sa  == SuffixArray(T)
        pri == CHOOSE i \in 0..L : sa[i] = 0
        \* the BWT column without the sentinel row
        b   == [k \in 1..L |->
                   LET row == IF k - 1 < pri THEN k - 1 ELSE k
                   IN  T[sa[row]]]
    IN  [length  |-> L,
         primary |-> pri,
         bwt     |-> b,
         count   |-> [c \in Sigma |-> CountOf(b, c)],
         L2      |-> L2Of(b),
         sa      |-> SampledSA(sa, K),
         interval |-> K]

\* ------------------------------------------------- fm_index accessors
length(f)   == f.length
primary(f)  == f.primary
count(f, c) == f.count[c]
L2(f, c)    == f.L2[c]
\* the sampling interval of the sampled suffix array
interval(f) == f.interval

\* ---------------------------------------------------- rank dictionary
\* rank( dict, k, c ): occurrences of c in bwt[0..k]; k = index_type(-1)
\* is the empty prefix
dict_rank(f, k, c) ==
    IF k = NegOne THEN 0
    ELSE Cardinality({j \in 0..k : f.bwt[j + 1] = c})

\* rank( dict, range, c )
dict_rank_range(f, range, c) ==
    [x |-> dict_rank(f, range.x, c), y |-> dict_rank(f, range.y, c)]

\* rank4( dict, k )
dict_rank4(f, k) == [c \in Sigma |-> dict_rank(f, k, c)]

\* the indices the dictionary answers: a slot of the stored BWT, or
\* index_type(-1) for the empty prefix
dict_in_bounds(f, k) == k = NegOne \/ k < Len(f.bwt)

\* what a dictionary query outside the stored BWT may return: such a read is
\* out of bounds, its outcome is any value
OobValues == 0..1

\* ------------------------------------------------ sampled suffix array
\* sa.has( j )
sa_has(f, j) == j \in DOMAIN f.sa
\* sa.fetch( j, suffix ): the success flag and the value written to suffix
sa_fetch(f, j) ==
    IF j \in DOMAIN f.sa THEN [ok |-> TRUE, suffix |-> f.sa[j]]
    ELSE [ok |-> FALSE, suffix |-> 0]

\* ------------------------------------------------------------- rank
\* rank with the sentinel test written k > primary
rank_gt_primary(f, k, c) ==
    IF k = NegOne THEN 0
    ELSE IF k = length(f) THEN count(f, c)
    ELSE LET k1 == IF k > primary(f) THEN Dec(k) ELSE k
         IN  dict_rank(f, k1, c)

\* rank whose k = length shortcut returns the total of symbol 0
rank_count0(f, k, c) ==
    IF k = NegOne THEN 0
    ELSE IF k = length(f) THEN count(f, 0)
    ELSE LET k1 == IF k >= primary(f) THEN Dec(k) ELSE k
         IN  dict_rank(f, k1, c)

\* rank whose k = length shortcut returns L2(c) in place of count(c)
rank_L2(f, k, c) ==
    IF k = NegOne THEN 0
    ELSE IF k = length(f) THEN L2(f, c)
    ELSE LET k1 == IF k >= primary(f) THEN Dec(k) ELSE k
         IN  dict_rank(f, k1, c)

\* rank( fmi, k, c )
rank(f, k, c) ==
    IF k = NegOne THEN 0
    ELSE IF k = length(f) THEN count(f, c)
    ELSE LET k1 == IF k >= primary(f) THEN Dec(k) ELSE k
         IN  dict_rank(f, k1, c)

\* rank over a range that leaves range.x unadjusted for the sentinel
rank_range_x_unadjusted(f, range, c) ==
    IF range.x = range.y
    THEN LET r == rank(f, range.x, c) IN [x |-> r, y |-> r]
    ELSE IF range.x = NegOne
    THEN LET r == rank(f, range.y, c) IN [x |-> 0, y |-> r]
    ELSE IF range.y = length(f)
    THEN [x |-> rank(f, range.x, c), y |-> count(f, c)]
    ELSE LET x1 == range.x
             y1 == IF range.y >= primary(f) THEN Dec(range.y) ELSE range.y
         IN  dict_rank_range(f, [x |-> x1, y |-> y1], c)

\* rank over a range whose x = -1 branch returns the rank of y on both ends
rank_range_open_both(f, range, c) ==
    IF range.x = range.y
    THEN LET r == rank(f, range.x, c) IN [x |-> r, y |-> r]
    ELSE IF range.x = NegOne
    THEN LET r == rank(f, range.y, c) IN [x |-> r, y |-> r]
    ELSE IF range.y = length(f)
    THEN [x |-> rank(f, range.x, c), y |-> count(f, c)]
    ELSE LET x1 == IF range.x >= primary(f) THEN Dec(range.x) ELSE range.x
             y1 == IF range.y >= primary(f) THEN Dec(range.y) ELSE range.y
         IN  dict_rank_range(f, [x |-> x1, y |-> y1], c)

\* rank( fmi, range, c )
rank_range(f, range, c) ==
    IF range.x = range.y
    THEN LET r == rank(f, range.x, c) IN [x |-> r, y |-> r]
    ELSE IF range.x = NegOne
    THEN LET r == rank(f, range.y, c) IN [x |-> 0, y |-> r]
    ELSE IF range.y = length(f)
    THEN [x |-> rank(f, range.x, c), y |-> count(f, c)]
    ELSE LET x1 == IF range.x >= primary(f) THEN Dec(range.x) ELSE range.x
             y1 == IF range.y >= primary(f) THEN Dec(range.y) ELSE range.y
         IN  dict_rank_range(f, [x |-> x1, y |-> y1], c)

\* the index rank( fmi, k, c ) hands to the dictionary, if it reaches it
rank_dict_args(f, k) ==
    IF k = NegOne \/ k = length(f) THEN {}
    ELSE {IF k >= primary(f) THEN Dec(k) ELSE k}

\* the indices rank( fmi, range, c ) hands to the dictionary
rank_range_dict_args(f, range) ==
    IF range.x = range.y THEN rank_dict_args(f, range.x)
    ELSE IF range.x = NegOne THEN rank_dict_args(f, range.y)
    ELSE IF range.y = length(f) THEN rank_dict_args(f, range.x)
    ELSE {IF range.x >= primary(f) THEN Dec(range.x) ELSE range.x,
          IF range.y >= primary(f) THEN Dec(range.y) ELSE range.y}

\* rank4 without the decrement for the sentinel
rank4_unadjusted(f, k) ==
    IF k = NegOne THEN [c \in Sigma |-> 0]
    ELSE IF k = length(f) THEN [c \in Sigma |-> count(f, c)]
    ELSE dict_rank4(f, k)

\* rank4 with the sentinel test written k > primary
rank4_gt_primary(f, k) ==
    IF k = NegOne THEN [c \in Sigma |-> 0]
    ELSE IF k = length(f) THEN [c \in Sigma |-> count(f, c)]
    ELSE LET k1 == IF k > primary(f) THEN Dec(k) ELSE k
         IN  dict_rank4(f, k1)

\* rank4( fmi, k )
rank4(f, k) ==
    IF k = NegOne THEN [c \in Sigma |-> 0]
    ELSE IF k = length(f) THEN [c \in Sigma |-> count(f, c)]
    ELSE LET k1 == IF k >= primary(f) THEN Dec(k) ELSE k
         IN  dict_rank4(f, k1)

\* rank4( dict, range, outl, outh )
dict_rank4_range(f, range) ==
    [outl |-> dict_rank4(f, range.x), outh |-> dict_rank4(f, range.y)]

\* the range form of rank4 whose y = length branch fills outh from range.x
rank4_range_outh_from_x(f, range) ==
    IF range.x = range.y
    THEN [outl |-> rank4(f, range.x), outh |-> rank4(f, range.x)]
    ELSE IF range.x = NegOne
    THEN [outl |-> [c \in Sigma |-> 0], outh |-> rank4(f, range.y)]
    ELSE IF range.y = length(f)
    THEN [outl |-> rank4(f, range.x), outh |-> rank4(f, range.x)]
    ELSE LET x1 == IF range.x >= primary(f) THEN Dec(range.x) ELSE range.x
             y1 == IF range.y >= primary(f) THEN Dec(range.y) ELSE range.y
         IN  dict_rank4_range(f, [x |-> x1, y |-> y1])

\* rank4( fmi, range, outl, outh ): the two outputs as a record
rank4_range(f, range) ==
    IF range.x = range.y
    THEN [outl |-> rank4(f, range.x), outh |-> rank4(f, range.x)]
    ELSE IF range.x = NegOne
    THEN [outl |-> [c \in Sigma |-> 0], outh |-> rank4(f, range.y)]
    ELSE IF range.y = length(f)
    THEN [outl |-> rank4(f, range.x), outh |-> [c \in Sigma |-> count(f, c)]]
    ELSE LET x1 == IF range.x >= primary(f) THEN Dec(range.x) ELSE range.x
             y1 == IF range.y >= primary(f) THEN Dec(range.y) ELSE range.y
         IN  dict_rank4_range(f, [x |-> x1, y |-> y1])

\* ------------------------------------------------------ backward search
\* the range update with range.x updated without the + 1
match_update_no_plus1(f, range, c) ==
    LET c_rank == rank_range(f, [x |-> Dec(range.x), y |-> range.y], c)
    IN  [x |-> Add(L2(f, c), c_rank.x),
         y |-> Add(L2(f, c), c_rank.y)]

\* the range update with + 1 added to range.y as well
match_update_y_plus1(f, range, c) ==
    LET c_rank == rank_range(f, [x |-> Dec(range.x), y |-> range.y], c)
    IN  [x |-> Add(Add(L2(f, c), c_rank.x), 1),
         y |-> Add(Add(L2(f, c), c_rank.y), 1)]

\* the range update of one loop iteration of match / match_reverse:
\* c_rank = rank( fmi, (range.x-1, range.y), c ), then the new x and y
match_update(f, range, c) ==
    LET c_rank == rank_range(f, [x |-> Dec(range.x), y |-> range.y], c)
    IN  [x |-> Add(Add(L2(f, c), c_rank.x), 1),
         y |-> Add(L2(f, c), c_rank.y)]

\* the loop of match with range.x updated without the + 1
RECURSIVE match_loop_no_plus1(_, _, _, _)
match_loop_no_plus1(f, pattern, i, range) ==
    IF ~(i >= 0 /\ range.x <= range.y) THEN range
    ELSE LET c == pattern[i + 1] IN
         IF c > MaxSym THEN [x |-> 1, y |-> 0]
         ELSE LET c_rank == rank_range(f, [x |-> Dec(range.x), y |-> range.y], c)
              IN  match_loop_no_plus1(f, pattern, i - 1,
                             [x |-> Add(L2(f, c), c_rank.x),
                              y |-> Add(L2(f, c), c_rank.y)])

\* the loop of match returning the current range at an N
RECURSIVE match_loop_N_keeps_range(_, _, _, _)
match_loop_N_keeps_range(f, pattern, i, range) ==
    IF ~(i >= 0 /\ range.x <= range.y) THEN range
    ELSE LET c == pattern[i + 1] IN
         IF c > MaxSym THEN range
         ELSE LET c_rank == rank_range(f, [x |-> Dec(range.x), y |-> range.y], c)
              IN  match_loop_N_keeps_range(f, pattern, i - 1,
                             [x |-> Add(Add(L2(f, c), c_rank.x), 1),
                              y |-> Add(L2(f, c), c_rank.y)])

\* the loop of match with the L2 offset left out of the update
RECURSIVE match_loop_no_L2(_, _, _, _)
match_loop_no_L2(f, pattern, i, range) ==
    IF ~(i >= 0 /\ range.x <= range.y) THEN range
    ELSE LET c == pattern[i + 1] IN
         IF c > MaxSym THEN [x |-> 1, y |-> 0]
         ELSE LET c_rank == rank_range(f, [x |-> Dec(range.x), y |-> range.y], c)
              IN  match_loop_no_L2(f, pattern, i - 1,
                                   [x |-> Add(c_rank.x, 1), y |-> c_rank.y])

\* the loop of match: i runs from pattern_len-1 down to 0
RECURSIVE match_loop(_, _, _, _)
match_loop(f, pattern, i, range) ==
    IF ~(i >= 0 /\ range.x <= range.y) THEN range
    ELSE LET c == pattern[i + 1] IN
         IF c > MaxSym THEN [x |-> 1, y |-> 0]
         ELSE LET c_rank == rank_range(f, [x |-> Dec(range.x), y |-> range.y], c)
              IN  match_loop(f, pattern, i - 1,
                             [x |-> Add(Add(L2(f, c), c_rank.x), 1),
                              y |-> Add(L2(f, c), c_rank.y)])

\* the four-argument match that starts from [0, L] whatever in_range is
match_in_from_full(f, pattern, pattern_len, in_range) ==
    match_loop(f, pattern, pattern_len - 1, [x |-> 0, y |-> length(f)])

\* match( fmi, pattern, pattern_len, in_range )
match_in(f, pattern, pattern_len, in_range) ==
    match_loop(f, pattern, pattern_len - 1, in_range)

\* match( fmi, pattern, pattern_len )
match(f, pattern, pattern_len) ==
    match_in(f, pattern, pattern_len, [x |-> 0, y |-> length(f)])

\* the loop of match_reverse with range.x updated without the + 1
RECURSIVE match_reverse_loop_no_plus1(_, _, _, _, _)
match_reverse_loop_no_plus1(f, pattern, pattern_len, i, range) ==
    IF ~(i < pattern_len /\ range.x <= range.y) THEN range
    ELSE LET c == pattern[i + 1] IN
         IF c > MaxSym THEN [x |-> 1, y |-> 0]
         ELSE LET c_rank == rank_range(f, [x |-> Dec(range.x), y |-> range.y], c)
              IN  match_reverse_loop_no_plus1(f, pattern, pattern_len, i + 1,
                             [x |-> Add(L2(f, c), c_rank.x),
                              y |-> Add(L2(f, c), c_rank.y)])

\* the loop of match_reverse: i runs from 0 up to pattern_len-1
RECURSIVE match_reverse_loop(_, _, _, _, _)
match_reverse_loop(f, pattern, pattern_len, i, range) ==
    IF ~(i < pattern_len /\ range.x <= range.y) THEN range
    ELSE LET c == pattern[i + 1] IN
         IF c > MaxSym THEN [x |-> 1, y |-> 0]
         ELSE LET c_rank == rank_range(f, [x |-> Dec(range.x), y |-> range.y], c)
              IN  match_reverse_loop(f, pattern, pattern_len, i + 1,
                             [x |-> Add(Add(L2(f, c), c_rank.x), 1),
                              y |-> Add(L2(f, c), c_rank.y)])

\* match_reverse with the loop started at the second symbol
match_reverse_from_1(f, pattern, pattern_len) ==
    match_reverse_loop(f, pattern, pattern_len, 1, [x |-> 0, y |-> length(f)])

\* match_reverse( fmi, pattern, pattern_len )
match_reverse(f, pattern, pattern_len) ==
    match_reverse_loop(f, pattern, pattern_len, 0, [x |-> 0, y |-> length(f)])

\* -------------------------------------------------- coordinate recovery
\* basic_inv_psi returning L2(c) alone
basic_inv_psi_no_rank(f, i) ==
    IF i = primary(f) THEN 0
    ELSE LET k == IF i < primary(f) THEN i ELSE Dec(i)
             c == f.bwt[k + 1]
         IN  L2(f, c)

\* basic_inv_psi that leaves the primary row where it is
basic_inv_psi_primary_stays(f, i) ==
    IF i = primary(f) THEN i
    ELSE LET k == IF i < primary(f) THEN i ELSE Dec(i)
             c == f.bwt[k + 1]
         IN  Add(L2(f, c), dict_rank(f, k, c))

\* basic_inv_psi( fmi, i )
basic_inv_psi(f, i) ==
    IF i = primary(f) THEN 0
    ELSE LET k == IF i < primary(f) THEN i ELSE Dec(i)
             c == f.bwt[k + 1]
         IN  Add(L2(f, c), dict_rank(f, k, c))

\* the walk step without the L2 offset
walk_step_no_L2(f, j) ==
    IF j # primary(f)
    THEN LET c == IF j < primary(f) THEN f.bwt[j + 1] ELSE f.bwt[j]
         IN  rank(f, j, c)
    ELSE 0

\* the walk step that leaves the primary row where it is
walk_step_primary_stays(f, j) ==
    IF j # primary(f)
    THEN LET c == IF j < primary(f) THEN f.bwt[j + 1] ELSE f.bwt[j]
         IN  Add(L2(f, c), rank(f, j, c))
    ELSE j

\* the walk step with the + 1 of the search update added
walk_step_plus1(f, j) ==
    IF j # primary(f)
    THEN LET c == IF j < primary(f) THEN f.bwt[j + 1] ELSE f.bwt[j]
         IN  Add(Add(L2(f, c), rank(f, j, c)), 1)
    ELSE 0

\* the slot read from a row with no adjustment for the sentinel
bwt_reads_unadjusted(f, i) == IF i = primary(f) THEN {} ELSE {i}

\* the slot of the stored BWT that basic_inv_psi( fmi, i ) and the body of
\* the walk loop read from row i (basic_inv_psi hands the same slot to the
\* rank dictionary)
bwt_reads(f, i) ==
    IF i = primary(f) THEN {}
    ELSE {IF i < primary(f) THEN i ELSE Dec(i)}

\* one iteration of the walk of locate / inv_psi / locate_ssa_iterator
walk_step(f, j) ==
    IF j # primary(f)
    THEN LET c == IF j < primary(f) THEN f.bwt[j + 1] ELSE f.bwt[j]
         IN  Add(L2(f, c), rank(f, j, c))
    ELSE 0

\* the while loop of locate returning the sample without the step count
RECURSIVE locate_loop_no_steps(_, _, _)
locate_loop_no_steps(f, j, t) ==
    LET got == sa_fetch(f, j) IN
    IF got.ok THEN got.suffix
    ELSE locate_loop_no_steps(f, walk_step(f, j), Add(t, 1))

\* the while loop of locate, from row j after t steps
RECURSIVE locate_loop(_, _, _)
locate_loop(f, j, t) ==
    LET got == sa_fetch(f, j) IN
    IF got.ok THEN Add(got.suffix, t)
    ELSE locate_loop(f, walk_step(f, j), Add(t, 1))

\* locate with the step counter t started at 1
locate_t_from_1(f, i) == locate_loop(f, i, 1)

\* locate( fmi, i )
locate(f, i) == locate_loop(f, i, 0)

\* the while loop of inv_psi, from row j after t steps
RECURSIVE inv_psi_loop(_, _, _)
inv_psi_loop(f, j, t) ==
    IF sa_fetch(f, j).ok THEN [x |-> j, y |-> t]
    ELSE inv_psi_loop(f, walk_step(f, j), Add(t, 1))

\* inv_psi returning the start row in place of the row the walk reached
inv_psi_start_row(f, i) == [x |-> i, y |-> inv_psi_loop(f, i, 0).y]

\* inv_psi( fmi, i )
inv_psi(f, i) == inv_psi_loop(f, i, 0)

\* the while loop of locate_ssa_iterator, from row j after t steps
RECURSIVE locate_ssa_iterator_loop(_, _, _)
locate_ssa_iterator_loop(f, j, t) ==
    IF sa_has(f, j) THEN [x |-> j, y |-> t]
    ELSE locate_ssa_iterator_loop(f, walk_step(f, j), Add(t, 1))

\* locate_ssa_iterator( fmi, i )
locate_ssa_iterator(f, i) == locate_ssa_iterator_loop(f, i, 0)

\* lookup_ssa_iterator returning the sample without the offset it.y
lookup_ssa_iterator_no_offset(f, it) == sa_fetch(f, it.x).suffix

\* lookup_ssa_iterator( fmi, it ): sa.fetch( it.x, suffix ), its success
\* flag not tested, then suffix + it.y
lookup_ssa_iterator(f, it) == Add(sa_fetch(f, it.x).suffix, it.y)

\* what the local index_type suffix may hold when sa.fetch did not write it:
\* it is read uninitialized, any value
UninitValues == 0..1

\* the queries that walk to a sampled row
WalkOps == {"locate", "inv_psi", "locate_ssa_iterator"}

\* row i after n LF-mapping steps
RECURSIVE LFIter(_, _, _)
LFIter(f, i, n) ==
    IF n = 0 THEN i ELSE basic_inv_psi(f, LFIter(f, i, n - 1))

\* ------------------------------------------------------- the queries
Init ==
    /\ text \in Seqs(Sigma, MaxLen)
    /\ SA = SuffixArray(text)
    /\ \E K \in 1..MaxK : fmi = BuildIndex(text, K)
    /\ op = "idle"
    /\ arg = <<>>
    /\ ret = <<>>
    /\ thr = [p \in Threads |-> IdleThread]

DoRank ==
    /\ op = "idle"
    /\ \E k \in {NegOne} \cup 0..length(fmi), c \in Sigma :
        /\ op' = "rank"
        /\ arg' = [k |-> k, c |-> c]
        /\ ret' = rank(fmi, k, c)
    /\ UNCHANGED <<text, SA, fmi, thr>>

DoRank4 ==
    /\ op = "idle"
    /\ \E k \in {NegOne} \cup 0..length(fmi) :
        /\ op' = "rank4"
        /\ arg' = [k |-> k]
        /\ ret' = rank4(fmi, k)
    /\ UNCHANGED <<text, SA, fmi, thr>>

DoMatch ==
    /\ op = "idle"
    /\ \E P \in Seqs(PatSyms, MaxPatLen) :
        /\ op' = "match"
        /\ arg' = [pattern |-> P, pattern_len |-> Len(P)]
        /\ ret' = match(fmi, P, Len(P))
    /\ UNCHANGED <<text, SA, fmi, thr>>

DoMatchReverse ==
    /\ op = "idle"
    /\ \E P \in Seqs(PatSyms, MaxPatLen) :
        /\ op' = "match_reverse"
        /\ arg' = [pattern |-> P, pattern_len |-> Len(P)]
        /\ ret' = match_reverse(fmi, P, Len(P))
    /\ UNCHANGED <<text, SA, fmi, thr>>

DoLocate ==
    /\ op = "idle"
    /\ \E i \in 0..length(fmi) :
        /\ op' = "locate"
        /\ arg' = [i |-> i]
        /\ ret' = locate(fmi, i)
    /\ UNCHANGED <<text, SA, fmi, thr>>

DoBasicInvPsi ==
    /\ op = "idle"
    /\ \E i \in 0..length(fmi) :
        /\ op' = "basic_inv_psi"
        /\ arg' = [i |-> i]
        /\ ret' = basic_inv_psi(fmi, i)
    /\ UNCHANGED <<text, SA, fmi, thr>>

DoInvPsi ==
    /\ op = "idle"
    /\ \E i \in 0..length(fmi) :
        /\ op' = "inv_psi"
        /\ arg' = [i |-> i]
        /\ ret' = inv_psi(fmi, i)
    /\ UNCHANGED <<text, SA, fmi, thr>>

DoLocateSsaIterator ==
    /\ op = "idle"
    /\ \E i \in 0..length(fmi) :
        /\ op' = "locate_ssa_iterator"
        /\ arg' = [i |-> i]
        /\ ret' = locate_ssa_iterator(fmi, i)
    /\ UNCHANGED <<text, SA, fmi, thr>>

\* lookup_ssa_iterator( fmi, it ) called on any row and any offset below the
\* sampling interval; on an unsampled row suffix is read uninitialized
DoLookupSsaIterator ==
    /\ op = "idle"
    /\ \E x \in 0..length(fmi), y \in 0..(interval(fmi) - 1) :
        LET it == [x |-> x, y |-> y] IN
        /\ op' = "lookup_ssa_iterator"
        /\ arg' = [it |-> it]
        /\ IF sa_has(fmi, x)
           THEN ret' = lookup_ssa_iterator(fmi, it)
           ELSE ret' \in {Add(g, y) : g \in UninitValues}
    /\ UNCHANGED <<text, SA, fmi, thr>>

Next ==
    \/ DoRank \/ DoRank4 \/ DoMatch \/ DoMatchReverse \/ DoLocate
    \/ DoBasicInvPsi \/ DoInvPsi \/ DoLocateSsaIterator
    \/ DoLookupSsaIterator

Spec == Init /\ [][Next]_vars

\* rank and rank4 as pure functions of any stored BWT and any primary row
InitRank ==
    /\ text = <<>>
    /\ SA = <<>>
    /\ \E b \in Seqs(Sigma, MaxLen), p \in 0..MaxLen :
        /\ p <= Len(b)
        /\ fmi = [length  |-> Len(b),
                  primary |-> p,
                  bwt     |-> b,
                  count   |-> [c \in Sigma |-> CountOf(b, c)],
                  L2      |-> L2Of(b),
                  sa      |-> <<>>]
    /\ op = "idle"
    /\ arg = <<>>
    /\ ret = <<>>
    /\ thr = [p \in Threads |-> IdleThread]

\* the logical rows a query may name: [-1, L]
Rows(f) == {NegOne} \cup 0..length(f)

\* rank( fmi, range, c ) called; a dictionary read outside the stored BWT is
\* an out-of-bounds read and leaves any result
DoRankRange ==
    /\ op = "idle"
    /\ \E x \in Rows(fmi), y \in Rows(fmi), c \in Sigma :
        LET range == [x |-> x, y |-> y] IN
        /\ op' = "rank_range"
        /\ arg' = [range |-> range, c |-> c]
        /\ IF \A k \in rank_range_dict_args(fmi, range) : dict_in_bounds(fmi, k)
           THEN ret' = rank_range(fmi, range, c)
           ELSE ret' \in [x : OobValues, y : OobValues]
    /\ UNCHANGED <<text, SA, fmi, thr>>

\* rank4( fmi, range, outl, outh ) called
DoRank4Range ==
    /\ op = "idle"
    /\ \E x \in Rows(fmi), y \in Rows(fmi) :
        LET range == [x |-> x, y |-> y] IN
        /\ op' = "rank4_range"
        /\ arg' = [range |-> range]
        /\ IF \A k \in rank_range_dict_args(fmi, range) : dict_in_bounds(fmi, k)
           THEN ret' = rank4_range(fmi, range)
           ELSE \E gl \in OobValues, gh \in OobValues :
                    ret' = [outl |-> [c \in Sigma |-> gl],
                            outh |-> [c \in Sigma |-> gh]]
    /\ UNCHANGED <<text, SA, fmi, thr>>

NextRank == DoRank \/ DoRank4 \/ DoRankRange \/ DoRank4Range

SpecRank == InitRank /\ [][NextRank]_vars

\* the scenario index: the text ACGTACGT with A=0, C=1, G=2, T=3
ScenarioText == <<0, 1, 2, 3, 0, 1, 2, 3>>

InitScenario ==
    /\ text = ScenarioText
    /\ SA = SuffixArray(text)
    /\ \E K \in 1..MaxK : fmi = BuildIndex(text, K)
    /\ op = "idle"
    /\ arg = <<>>
    /\ ret = <<>>
    /\ thr = [p \in Threads |-> IdleThread]

\* match( fmi, pattern, pattern_len ) called with a pattern of up to four
\* symbols
DoMatchScenario ==
    /\ op = "idle"
    /\ \E P \in Seqs(PatSyms, MaxPatLen + 1) :
        /\ op' = "match"
        /\ arg' = [pattern |-> P, pattern_len |-> Len(P)]
        /\ ret' = match(fmi, P, Len(P))
    /\ UNCHANGED <<text, SA, fmi, thr>>

NextScenario == DoRank \/ DoMatchScenario

SpecScenario == InitScenario /\ [][NextScenario]_vars

\* ------------------------------------------------ one LF step on its own
\* the body of the walk loop run once from row j, on any stored BWT and
\* any primary row
DoWalkStep ==
    /\ op = "idle"
    /\ \E j \in 0..length(fmi) :
        /\ op' = "walk_step"
        /\ arg' = [j |-> j]
        /\ ret' = walk_step(fmi, j)
    /\ UNCHANGED <<text, SA, fmi, thr>>

NextStep == DoWalkStep \/ DoBasicInvPsi

SpecStep == InitRank /\ [][NextStep]_vars

\* ------------------------------------------ match from a starting range
\* a pattern A.B searched in two calls: B from [0, L], then A from the range
\* B returned
DoMatchSplit ==
    /\ op = "idle"
    /\ \E P \in Seqs(PatSyms, StepPatLen) : \E n \in 0..Len(P) :
        LET A == SubSeq(P, 1, n)
            B == SubSeq(P, n + 1, Len(P))
        IN  /\ op' = "match_split"
            /\ arg' = [a |-> A, b |-> B]
            /\ ret' = match_in(fmi, A, Len(A), match(fmi, B, Len(B)))
    /\ UNCHANGED <<text, SA, fmi, thr>>

\* match( fmi, pattern, pattern_len, in_range ) called with an empty in_range
DoMatchIn ==
    /\ op = "idle"
    /\ \E P \in Seqs(PatSyms, StepPatLen) :
       \E x \in 1..(length(fmi) + 1), y \in 0..length(fmi) :
        /\ x > y
        /\ op' = "match_in"
        /\ arg' = [pattern |-> P, pattern_len |-> Len(P),
                   in_range |-> [x |-> x, y |-> y]]
        /\ ret' = match_in(fmi, P, Len(P), [x |-> x, y |-> y])
    /\ UNCHANGED <<text, SA, fmi, thr>>

NextCompose == DoMatchSplit \/ DoMatchIn

SpecCompose == Init /\ [][NextCompose]_vars

\* ------------------------------------- every query that reads the tables
\* rank, rank4 (point and range forms), basic_inv_psi and the walk loop body
\* on any stored BWT and any primary row
NextReads ==
    \/ DoRank \/ DoRank4 \/ DoRankRange \/ DoRank4Range
    \/ DoWalkStep \/ DoBasicInvPsi

SpecReads == InitRank /\ [][NextReads]_vars

\* ------------------------------------- queries on any row index, checked
\* A debug build: NVBIO_CUDA_ASSERT stops the query when its condition is
\* false. Each action records whether the entry assertion stopped the query
\* and the slots of the stored BWT the query went on to read or to hand to
\* the rank dictionary.

\* the row indices a caller may pass, valid or not
AnyRows(f) == {NegOne} \cup 0..(length(f) + 1)

\* NVBIO_CUDA_ASSERT( i <= fmi.length() ) holds
entry_assert(f, i) == i <= length(f)

\* the slots read by the walk from row i, up to the sampled row it stops on
walk_reads(f, i) ==
    UNION {IF LFIter(f, i, n) = primary(f) THEN {}
           ELSE bwt_reads(f, LFIter(f, i, n))
                    \cup rank_dict_args(f, LFIter(f, i, n)) :
           n \in 0..(inv_psi(f, i).y - 1)}

\* rank( fmi, k, c ) and rank4( fmi, k ): no assertion on k
DoRankAny ==
    /\ op = "idle"
    /\ \E k \in AnyRows(fmi), name \in {"rank", "rank4"} :
        /\ op' = name
        /\ arg' = [i |-> k]
        /\ ret' = [asserted |-> FALSE, reads |-> rank_dict_args(fmi, k)]
    /\ UNCHANGED <<text, SA, fmi, thr>>

\* basic_inv_psi( fmi, i ): the assertion, then the read of bwt[k]
DoBasicInvPsiAny ==
    /\ op = "idle"
    /\ \E i \in AnyRows(fmi) :
        /\ op' = "basic_inv_psi"
        /\ arg' = [i |-> i]
        /\ ret' = IF ~entry_assert(fmi, i)
                  THEN [asserted |-> TRUE, reads |-> {}]
                  ELSE [asserted |-> FALSE, reads |-> bwt_reads(fmi, i)]
    /\ UNCHANGED <<text, SA, fmi, thr>>

\* inv_psi, locate, locate_ssa_iterator: the assertion, then the walk
DoWalkAny ==
    /\ op = "idle"
    /\ \E i \in AnyRows(fmi), name \in WalkOps :
        /\ op' = name
        /\ arg' = [i |-> i]
        /\ ret' = IF ~entry_assert(fmi, i)
                  THEN [asserted |-> TRUE, reads |-> {}]
                  ELSE [asserted |-> FALSE, reads |-> walk_reads(fmi, i)]
    /\ UNCHANGED <<text, SA, fmi, thr>>

NextChecked == DoRankAny \/ DoBasicInvPsiAny \/ DoWalkAny

SpecChecked == Init /\ [][NextChecked]_vars

\* ------------------------------------------- the range update on its own
\* one loop iteration of match entered with an empty range: rows x-1 and y
\* are rows of the index, x > y
DoMatchUpdate ==
    /\ op = "idle"
    /\ \E x \in 1..(length(fmi) + 1), y \in 0..length(fmi), c \in Sigma :
        /\ x > y
        /\ op' = "match_update"
        /\ arg' = [range |-> [x |-> x, y |-> y], c |-> c]
        /\ ret' = match_update(fmi, [x |-> x, y |-> y], c)
    /\ UNCHANGED <<text, SA, fmi, thr>>

NextUpdate == DoMatchUpdate \/ DoMatch \/ DoMatchReverse

SpecUpdate == Init /\ [][NextUpdate]_vars

\* ------------------------------------------------ queries step by step
\* Each thread runs one query: the call sets its locals, every further step
\* is one test of the loop condition followed by the loop body or the return.

\* the locals of a walk with the step count started at 1
walk_start_t_1(i) == [j |-> i, t |-> 1]

\* the locals of a walk before its loop: index_type j = i; index_type t = 0
walk_start(i) == [j |-> i, t |-> 0]

\* match( fmi, pattern, pattern_len ) called with a pattern of up to n codes
CallMatch(p, n) ==
    /\ thr[p].pc = "idle"
    /\ \E P \in Seqs(PatSyms, n) :
        thr' = [thr EXCEPT ![p] =
                   [IdleThread EXCEPT !.pc = "loop", !.op = "match",
                                      !.pattern = P, !.pattern_len = Len(P),
                                      !.i = Len(P) - 1,
                                      !.range = [x |-> 0, y |-> length(fmi)]]]
    /\ UNCHANGED <<text, SA, fmi, op, arg, ret>>

\* one test of the loop condition of match, then its body or the return
MatchIter(p) ==
    /\ thr[p].pc = "loop"
    /\ thr[p].op = "match"
    /\ LET s == thr[p] IN
       thr' = [thr EXCEPT ![p] =
           IF ~(s.i >= 0 /\ s.range.x <= s.range.y)
           THEN [s EXCEPT !.pc = "done", !.ret_range = s.range]
           ELSE LET c == s.pattern[s.i + 1] IN
                IF c > MaxSym
                THEN [s EXCEPT !.pc = "done", !.ret_range = [x |-> 1, y |-> 0]]
                ELSE [s EXCEPT !.range = match_update(fmi, s.range, c),
                               !.i = s.i - 1]]
    /\ UNCHANGED <<text, SA, fmi, op, arg, ret>>

\* match_reverse( fmi, pattern, pattern_len ) called
CallMatchReverse(p, n) ==
    /\ thr[p].pc = "idle"
    /\ \E P \in Seqs(PatSyms, n) :
        thr' = [thr EXCEPT ![p] =
                   [IdleThread EXCEPT !.pc = "loop", !.op = "match_reverse",
                                      !.pattern = P, !.pattern_len = Len(P),
                                      !.i = 0,
                                      !.range = [x |-> 0, y |-> length(fmi)]]]
    /\ UNCHANGED <<text, SA, fmi, op, arg, ret>>

\* one test of the loop condition of match_reverse, then body or return
MatchReverseIter(p) ==
    /\ thr[p].pc = "loop"
    /\ thr[p].op = "match_reverse"
    /\ LET s == thr[p] IN
       thr' = [thr EXCEPT ![p] =
           IF ~(s.i < s.pattern_len /\ s.range.x <= s.range.y)
           THEN [s EXCEPT !.pc = "done", !.ret_range = s.range]
           ELSE LET c == s.pattern[s.i + 1] IN
                IF c > MaxSym
                THEN [s EXCEPT !.pc = "done", !.ret_range = [x |-> 1, y |-> 0]]
                ELSE [s EXCEPT !.range = match_update(fmi, s.range, c),
                               !.i = s.i + 1]]
    /\ UNCHANGED <<text, SA, fmi, op, arg, ret>>

\* a walk called on row i: name is locate, inv_psi or locate_ssa_iterator
CallWalk(p, name) ==
    /\ thr[p].pc = "idle"
    /\ \E i \in 0..length(fmi) :
        thr' = [thr EXCEPT ![p] =
                   [IdleThread EXCEPT !.pc = "loop", !.op = name, !.row = i,
                                      !.j = walk_start(i).j,
                                      !.t = walk_start(i).t]]
    /\ UNCHANGED <<text, SA, fmi, op, arg, ret>>

CallLocate(p) == CallWalk(p, "locate")
CallInvPsi(p) == CallWalk(p, "inv_psi")
CallLocateSsaIterator(p) == CallWalk(p, "locate_ssa_iterator")

\* the walk of locate with the located coordinate cached in the shared
\* sampled suffix array
LocateIter_memo(p) ==
    /\ thr[p].pc = "loop"
    /\ thr[p].op = "locate"
    /\ LET s   == thr[p]
           got == sa_fetch(fmi, s.j)
       IN  IF got.ok
           THEN /\ thr' = [thr EXCEPT ![p] =
                       [s EXCEPT !.pc = "done", !.ret = Add(got.suffix, s.t)]]
                /\ fmi' = [fmi EXCEPT !.sa =
                       [r \in DOMAIN fmi.sa \cup {s.row} |->
                           IF r = s.row THEN Add(got.suffix, s.t)
                           ELSE fmi.sa[r]]]
           ELSE /\ thr' = [thr EXCEPT ![p] =
                       [s EXCEPT !.j = walk_step(fmi, s.j), !.t = Add(s.t, 1)]]
                /\ fmi' = fmi
    /\ UNCHANGED <<text, SA, op, arg, ret>>

\* one test of sa.fetch( j, suffix ) in locate, then the loop body or the
\* return of suffix + t
LocateIter(p) ==
    /\ thr[p].pc = "loop"
    /\ thr[p].op = "locate"
    /\ LET s   == thr[p]
           got == sa_fetch(fmi, s.j)
       IN  thr' = [thr EXCEPT ![p] =
               IF got.ok
               THEN [s EXCEPT !.pc = "done", !.ret = Add(got.suffix, s.t)]
               ELSE [s EXCEPT !.j = walk_step(fmi, s.j), !.t = Add(s.t, 1)]]
    /\ UNCHANGED <<text, SA, fmi, op, arg, ret>>

\* one test of sa.fetch( j, suffix ) in inv_psi, then the loop body or the
\* return of (j, t)
InvPsiIter(p) ==
    /\ thr[p].pc = "loop"
    /\ thr[p].op = "inv_psi"
    /\ LET s == thr[p] IN
       thr' = [thr EXCEPT ![p] =
           IF sa_fetch(fmi, s.j).ok
           THEN [s EXCEPT !.pc = "done", !.ret_range = [x |-> s.j, y |-> s.t]]
           ELSE [s EXCEPT !.j = walk_step(fmi, s.j), !.t = Add(s.t, 1)]]
    /\ UNCHANGED <<text, SA, fmi, op, arg, ret>>

\* one test of sa.has( j ) in locate_ssa_iterator, then the loop body or
\* the return of (j, t)
LocateSsaIteratorIter(p) ==
    /\ thr[p].pc = "loop"
    /\ thr[p].op = "locate_ssa_iterator"
    /\ LET s == thr[p] IN
       thr' = [thr EXCEPT ![p] =
           IF sa_has(fmi, s.j)
           THEN [s EXCEPT !.pc = "done", !.ret_range = [x |-> s.j, y |-> s.t]]
           ELSE [s EXCEPT !.j = walk_step(fmi, s.j), !.t = Add(s.t, 1)]]
    /\ UNCHANGED <<text, SA, fmi, op, arg, ret>>

\* one thread running one walk; a called walk keeps taking its steps
NextWalk ==
    \/ CallLocate(1) \/ LocateIter(1)
    \/ CallInvPsi(1) \/ InvPsiIter(1)
    \/ CallLocateSsaIterator(1) \/ LocateSsaIteratorIter(1)

SpecWalk ==
    /\ Init
    /\ [][NextWalk]_vars
    /\ WF_vars(LocateIter(1))
    /\ WF_vars(InvPsiIter(1))
    /\ WF_vars(LocateSsaIteratorIter(1))

\* one thread running one search
NextSearch ==
    \/ CallMatch(1, StepPatLen) \/ MatchIter(1)
    \/ CallMatchReverse(1, StepPatLen) \/ MatchReverseIter(1)

SpecSearch == Init /\ [][NextSearch]_vars

\* -------------------------------------------- concurrent queries
\* the threads share one index; each step of the run is one step of one
\* thread's query: thread 1 runs a search, thread 2 a coordinate recovery
InitConc ==
    /\ text \in Seqs(Sigma, ConcLen)
    /\ SA = SuffixArray(text)
    /\ \E K \in 1..MaxK : fmi = BuildIndex(text, K)
    /\ op = "idle"
    /\ arg = <<>>
    /\ ret = <<>>
    /\ thr = [p \in Threads |-> IdleThread]

NextConc ==
    \/ CallMatch(1, ConcPatLen) \/ MatchIter(1)
    \/ CallMatchReverse(1, ConcPatLen) \/ MatchReverseIter(1)
    \/ CallLocate(2) \/ LocateIter(2)
    \/ CallInvPsi(2) \/ InvPsiIter(2)
    \/ CallLocateSsaIterator(2) \/ LocateSsaIteratorIter(2)

SpecConc == InitConc /\ [][NextConc]_vars

\* ============================================================ oracles
\* the text coordinates at which pattern P occurs in text T
Occ(T, P) ==
    {p \in 0..(Len(T) - Len(P)) : \A i \in 1..Len(P) : T[p + i] = P[i]}

Reverse(P) == [i \in 1..Len(P) |-> P[Len(P) + 1 - i]]

\* the loop of match without the test range.x <= range.y: every symbol is
\* consumed, whatever the range has become
RECURSIVE match_loop_unguarded(_, _, _, _)
match_loop_unguarded(f, pattern, i, range) ==
    IF i < 0 THEN range
    ELSE LET c == pattern[i + 1] IN
         IF c > MaxSym THEN [x |-> 1, y |-> 0]
         ELSE match_loop_unguarded(f, pattern, i - 1, match_update(f, range, c))

\* the symbols a stepwise search has consumed so far
Consumed(s) ==
    IF s.op = "match" THEN s.pattern_len - 1 - s.i ELSE s.i

\* the symbol a stepwise search consumed last
LastSym(s) ==
    IF s.op = "match" THEN s.pattern[s.i + 2] ELSE s.pattern[s.i]

\* the index still is the one construction built over the text: each
\* component against the text and its suffix array
IndexIntact ==
    /\ fmi.length = Len(text)
    /\ SA[fmi.primary] = 0
    /\ fmi.bwt = [k \in 1..Len(text) |->
                     text[SA[IF k - 1 < fmi.primary THEN k - 1 ELSE k]]]
    /\ fmi.count = [c \in Sigma |-> CountOf(fmi.bwt, c)]
    /\ fmi.L2 = L2Of(fmi.bwt)
    /\ fmi.sa = SampledSA(SA, fmi.interval)

\* what the query of thread state s returns when it runs alone on index f
Alone(f, s) ==
    CASE s.op = "match" ->
            [ret |-> 0, ret_range |-> match(f, s.pattern, s.pattern_len)]
      [] s.op = "match_reverse" ->
            [ret |-> 0, ret_range |-> match_reverse(f, s.pattern, s.pattern_len)]
      [] s.op = "locate" ->
            [ret |-> locate(f, s.row), ret_range |-> [x |-> 0, y |-> 0]]
      [] s.op = "inv_psi" ->
            [ret |-> 0, ret_range |-> inv_psi(f, s.row)]
      [] s.op = "locate_ssa_iterator" ->
            [ret |-> 0, ret_range |-> locate_ssa_iterator(f, s.row)]

\* the slot of the stored BWT that holds the symbol of logical row j
Adjusted(f, j) == IF j < primary(f) THEN j ELSE j - 1

\* the block of rows whose suffixes start with c
Block(f, c) == (L2(f, c) + 1)..(L2(f, c) + count(f, c))

\* the four counts of a vec4 added up
Sum4(v) == v[0] + v[1] + v[2] + v[3]

\* the physical indices the query just run read the stored BWT at or handed
\* to the rank dictionary
PhysicalReads ==
    CASE op \in {"rank", "rank4"} -> rank_dict_args(fmi, arg.k)
      [] op \in {"rank_range", "rank4_range"} ->
             rank_range_dict_args(fmi, arg.range)
      [] op = "basic_inv_psi" -> bwt_reads(fmi, arg.i)
      [] op = "walk_step" ->
             IF arg.j = primary(fmi) THEN {}
             ELSE bwt_reads(fmi, arg.j) \cup rank_dict_args(fmi, arg.j)
      [] OTHER -> {}

\* the logical indices the query just run was called with
LogicalArgs ==
    CASE op \in {"rank", "rank4"} -> {arg.k}
      [] op \in {"rank_range", "rank4_range"} -> {arg.range.x, arg.range.y}
      [] op = "basic_inv_psi" -> {arg.i}
      [] op = "walk_step" -> {arg.j}
      [] OTHER -> {}

\* the pattern holds a symbol code > 3
HasN(P) == \E i \in 1..Len(P) : P[i] > MaxSym

\* the symbols match reads before it meets an N: those after the last N
AfterLastN(P) ==
    LET q == CHOOSE i \in 1..Len(P) :
                 P[i] > MaxSym /\ \A j \in (i + 1)..Len(P) : P[j] <= MaxSym
    IN  SubSeq(P, q + 1, Len(P))

\* the symbols match_reverse reads before it meets an N: those before the first
BeforeFirstN(P) ==
    LET q == CHOOSE i \in 1..Len(P) :
                 P[i] > MaxSym /\ \A j \in 1..(i - 1) : P[j] <= MaxSym
    IN  SubSeq(P, 1, q - 1)

\* occurrences of c among the logical rows [0, k] of the BWT column, the
\* sentinel row contributing no symbol
LogicalOcc(f, k, c) ==
    IF k = NegOne THEN 0
    ELSE Cardinality({r \in 0..k :
             /\ r # f.primary
             /\ f.bwt[(IF r < f.primary THEN r ELSE r - 1) + 1] = c})

\* k1 <= k2 on [-1, L], with index_type(-1) ordered below 0
RowLeq(k1, k2) == k1 = NegOne \/ (k2 # NegOne /\ k1 <= k2)

EmptyRange == [x |-> 1, y |-> 0]

\* ============================================================= claims
\* C1 - Match completeness: for every non-empty substring P of the text,
\* match from the default range [0, L] returns x <= y with y - x + 1 equal
\* to the number of positions at which P occurs in the text.
C1_MatchComplete ==
    (op = "match" /\ arg.pattern_len > 0 /\ Occ(text, arg.pattern) # {})
        => /\ ret.x <= ret.y
           /\ ret.y - ret.x + 1 = Cardinality(Occ(text, arg.pattern))

\* a pattern of two symbols found at two places, counted as two rows
C1_Witness ==
    /\ op = "match"
    /\ arg.pattern_len >= 2
    /\ Cardinality(Occ(text, arg.pattern)) >= 2
    /\ ret.y - ret.x + 1 = Cardinality(Occ(text, arg.pattern))

\* C2 - Match soundness: if match returns a non-empty range [x, y], every
\* row r of it is located at a text coordinate p whose pattern_len symbols
\* text[p .. p+n-1] equal the pattern.
C2_MatchSound ==
    (op = "match" /\ ret.x <= ret.y)
        => \A r \in ret.x..ret.y :
               LET p == locate(fmi, r)
               IN  /\ p + arg.pattern_len <= Len(text)
                   /\ \A i \in 1..arg.pattern_len : text[p + i] = arg.pattern[i]

\* two rows, each located at an occurrence of a two-symbol pattern
C2_Witness ==
    /\ op = "match"
    /\ arg.pattern_len >= 2
    /\ ret.x < ret.y
    /\ \A r \in ret.x..ret.y : locate(fmi, r) \in Occ(text, arg.pattern)

\* C3 (as stated) - a pattern over {0,1,2,3} that does not occur in the
\* text makes match return exactly the range (1, 0).
C3_Original ==
    (op = "match" /\ ~HasN(arg.pattern) /\ Occ(text, arg.pattern) = {})
        => ret = EmptyRange

\* C3 (amended) - a pattern over {0,1,2,3} that does not occur in the text
\* makes match return the range left by the step that ran dry: an empty
\* range with x = y + 1, which need not be (1, 0).
C3_NoOccurrenceEmpty ==
    (op = "match" /\ ~HasN(arg.pattern) /\ Occ(text, arg.pattern) = {})
        => /\ ret.x > ret.y
           /\ ret.x = ret.y + 1

\* an absent pattern answered by an empty range other than (1, 0)
C3_Witness ==
    /\ op = "match"
    /\ ~HasN(arg.pattern)
    /\ Occ(text, arg.pattern) = {}
    /\ ret.x = ret.y + 1
    /\ ret # EmptyRange

\* C4 (as stated) - every pattern holding a symbol > 3 makes match and
\* match_reverse return exactly (1, 0), also when the symbols read before
\* the N already emptied the range.
C4_Original ==
    (op \in {"match", "match_reverse"} /\ HasN(arg.pattern))
        => ret = EmptyRange

\* C4 (amended) - every pattern holding a symbol > 3 makes match and
\* match_reverse return an empty range (x > y); it is exactly (1, 0) when
\* the N is reached, that is when the symbols read before it (after the last
\* N for match, before the first N for match_reverse) still have a match.
C4_AmbiguousEmpty ==
    /\ (op = "match" /\ HasN(arg.pattern))
           => /\ ret.x > ret.y
              /\ Occ(text, AfterLastN(arg.pattern)) # {} => ret = EmptyRange
    /\ (op = "match_reverse" /\ HasN(arg.pattern))
           => /\ ret.x > ret.y
              /\ Occ(text, Reverse(BeforeFirstN(arg.pattern))) # {}
                     => ret = EmptyRange

\* an N never read because the symbols before it emptied the range
C4_Witness ==
    /\ op = "match"
    /\ HasN(arg.pattern)
    /\ Occ(text, AfterLastN(arg.pattern)) = {}
    /\ ret.x > ret.y
    /\ ret # EmptyRange

\* C5 - Empty-match signal: from [0, L], match returns x > y exactly when
\* the pattern holds a symbol > 3 or does not occur in the text, and
\* match_reverse does so for the reversed pattern; otherwise x <= y.
C5_EmptySignal ==
    /\ op = "match"
           => ((ret.x > ret.y)
                   <=> (HasN(arg.pattern) \/ Occ(text, arg.pattern) = {}))
    /\ op = "match_reverse"
           => ((ret.x > ret.y)
                   <=> (HasN(arg.pattern)
                            \/ Occ(text, Reverse(arg.pattern)) = {}))

\* match_reverse hits on a pattern whose reversal occurs and which itself
\* does not
C5_Witness ==
    /\ op = "match_reverse"
    /\ arg.pattern_len >= 2
    /\ ~HasN(arg.pattern)
    /\ Occ(text, Reverse(arg.pattern)) # {}
    /\ Occ(text, arg.pattern) = {}
    /\ ret.x <= ret.y

\* C6 (as stated) - locate(i) is SA[i], and it lies in [0, L) unless i is
\* the primary row, where it is the sentinel coordinate L.
C6_Original ==
    op = "locate"
        => /\ ret = SA[arg.i]
           /\ \/ ret \in 0..(length(fmi) - 1)
              \/ (arg.i = primary(fmi) /\ ret = length(fmi))

\* C6 (amended) - locate(i) is SA[i] for every row i in [0, L]; it lies in
\* [0, L) for every row i >= 1, the primary row included (there it is 0),
\* and it is the sentinel coordinate L for row 0, the row of the sentinel
\* suffix.
C6_LocateRoundTrip ==
    op = "locate"
        => /\ ret = SA[arg.i]
           /\ arg.i >= 1 => ret \in 0..(length(fmi) - 1)
           /\ arg.i = primary(fmi) => ret = 0
           /\ arg.i = 0 => ret = length(fmi)

\* a row located after walking from an unsampled row
C6_Witness ==
    /\ op = "locate"
    /\ arg.i >= 1
    /\ ~sa_has(fmi, arg.i)
    /\ ret = SA[arg.i]
    /\ ret > 0

\* C7 - rank(k, c) is the number of c among the logical rows [0, k], the
\* sentinel row adding none, for every k in [-1, L], c and primary in
\* [0, L]: 0 at k = -1, count(c) at k = L, else the dictionary's answer at
\* k when k < primary and at k - 1 when k >= primary.
C7_RankCounts ==
    op = "rank"
        => /\ ret = LogicalOcc(fmi, arg.k, arg.c)
           /\ arg.k = NegOne => ret = 0
           /\ arg.k = length(fmi) => ret = count(fmi, arg.c)
           /\ (arg.k # NegOne /\ arg.k # length(fmi) /\ arg.k < primary(fmi))
                  => ret = dict_rank(fmi, arg.k, arg.c)
           /\ (arg.k # NegOne /\ arg.k # length(fmi) /\ arg.k >= primary(fmi))
                  => ret = dict_rank(fmi, Dec(arg.k), arg.c)

\* primary = 0 and k = 0 on a non-empty BWT: the dictionary is asked at -1
C7_Witness ==
    /\ op = "rank"
    /\ primary(fmi) = 0
    /\ arg.k = 0
    /\ length(fmi) > 0
    /\ Dec(arg.k) = NegOne
    /\ ret = 0

\* C8 - Rank monotonicity: rank(k1, c) <= rank(k2, c) for all k1 <= k2 in
\* [-1, L] (-1 below 0), across the shortcuts and the primary row.
C8_RankMonotone ==
    op = "rank"
        => \A k2 \in {NegOne} \cup 0..length(fmi) :
               /\ RowLeq(arg.k, k2) => ret <= rank(fmi, k2, arg.c)
               /\ RowLeq(k2, arg.k) => rank(fmi, k2, arg.c) <= ret

\* a rank below the primary row that is positive and still under the total
C8_Witness ==
    /\ op = "rank"
    /\ arg.k # NegOne
    /\ arg.k < primary(fmi)
    /\ primary(fmi) < length(fmi)
    /\ 0 < ret
    /\ ret < rank(fmi, length(fmi), arg.c)

\* C9 - Rank totals: rank(L, c) = count(c), which is what the dictionary
\* returns at physical index L - 1, and the counts sum to L.
C9_RankTotals ==
    (op = "rank" /\ arg.k = length(fmi))
        => /\ ret = count(fmi, arg.c)
           /\ ret = dict_rank(fmi, Dec(length(fmi)), arg.c)
           /\ count(fmi, 0) + count(fmi, 1) + count(fmi, 2) + count(fmi, 3)
                  = length(fmi)

\* the total of a symbol that occurs, on a BWT holding other symbols too
C9_Witness ==
    /\ op = "rank"
    /\ arg.k = length(fmi)
    /\ 0 < ret
    /\ ret < length(fmi)
    /\ ret = count(fmi, arg.c)

\* C10 - Rank4 consistency: rank4(k) = (rank(k,0), rank(k,1), rank(k,2),
\* rank(k,3)) for every k in [-1, L].
C10_Rank4Consistent ==
    op = "rank4"
        => /\ DOMAIN ret = Sigma
           /\ \A c \in Sigma : ret[c] = rank(fmi, arg.k, c)

\* rank4 at a row past the primary row, short of L, with a symbol counted
C10_Witness ==
    /\ op = "rank4"
    /\ arg.k # NegOne
    /\ arg.k >= primary(fmi)
    /\ arg.k < length(fmi)
    /\ \E c \in Sigma : ret[c] > 0
    /\ \A c \in Sigma : ret[c] = rank(fmi, arg.k, c)

\* C11 (as stated) - the range form of rank4 yields outl = rank4(range.x)
\* and outh = rank4(range.y) for every range with x, y in [-1, L].
C11_Original ==
    op = "rank4_range"
        => /\ ret.outl = rank4(fmi, arg.range.x)
           /\ ret.outh = rank4(fmi, arg.range.y)

\* C11 (amended) - the range form of rank4 yields outl = rank4(range.x) and
\* outh = rank4(range.y) for every range with x in [-1, L] and y in [0, L],
\* and for x = y = -1, whichever branch is taken; a range with y = -1 and
\* x >= 0 hands the dictionary index_type(-2).
C11_Rank4Range ==
    (op = "rank4_range" /\ (arg.range.y # NegOne \/ arg.range.x = NegOne))
        => /\ ret.outl = rank4(fmi, arg.range.x)
           /\ ret.outh = rank4(fmi, arg.range.y)

\* both endpoints adjusted for the sentinel and handed to the dictionary
\* together
C11_Witness ==
    /\ op = "rank4_range"
    /\ arg.range.x # NegOne
    /\ arg.range.x < primary(fmi)
    /\ arg.range.y >= primary(fmi)
    /\ arg.range.y < length(fmi)
    /\ \E c \in Sigma : ret.outl[c] < ret.outh[c]
    /\ ret.outh = rank4(fmi, arg.range.y)

\* C12 (as stated) - rank(fmi, range, c) is the pair (rank(range.x, c),
\* rank(range.y, c)) for every range with x, y in [-1, L] and every c.
C12_Original ==
    op = "rank_range"
        => /\ ret.x = rank(fmi, arg.range.x, arg.c)
           /\ ret.y = rank(fmi, arg.range.y, arg.c)

\* C12 (amended) - rank(fmi, range, c) is the pair (rank(range.x, c),
\* rank(range.y, c)) for every range with x in [-1, L] and y in [0, L], and
\* for x = y = -1: each endpoint is adjusted for the sentinel once, x = y
\* returns the single rank on both ends, x = -1 returns (0, rank(y)).
C12_RankRange ==
    (op = "rank_range" /\ (arg.range.y # NegOne \/ arg.range.x = NegOne))
        => /\ ret.x = rank(fmi, arg.range.x, arg.c)
           /\ ret.y = rank(fmi, arg.range.y, arg.c)
           /\ ret.x = LogicalOcc(fmi, arg.range.x, arg.c)
           /\ ret.y = LogicalOcc(fmi, arg.range.y, arg.c)
           /\ arg.range.x = NegOne => ret.x = 0

\* both endpoints past the primary row, short of L, one c between them
C12_Witness ==
    /\ op = "rank_range"
    /\ arg.range.x # NegOne
    /\ arg.range.x >= primary(fmi)
    /\ arg.range.x < arg.range.y
    /\ arg.range.y < length(fmi)
    /\ ret.x < ret.y
    /\ ret.y = LogicalOcc(fmi, arg.range.y, arg.c)

\* C13 - Scenario: on the index of ACGTACGT (L = 8), match of ACGT returns
\* a range of exactly two rows, match of ACGN returns an empty range,
\* rank(-1, c) = 0 for every c and rank(8, c) = 2 for each of A, C, G, T.
C13_Scenario ==
    /\ length(fmi) = Len(ScenarioText)
    /\ (op = "match" /\ arg.pattern = <<0, 1, 2, 3>>)
           => (ret.x <= ret.y /\ ret.y - ret.x + 1 = 2)
    /\ (op = "match" /\ arg.pattern = <<0, 1, 2, MaxSym + 1>>)
           => ret.x > ret.y
    /\ (op = "rank" /\ arg.k = NegOne) => ret = 0
    /\ (op = "rank" /\ arg.k = Len(ScenarioText)) => ret = 2

\* ACGT matched on the two rows that locate to coordinates 0 and 4
C13_Witness ==
    /\ op = "match"
    /\ text = ScenarioText
    /\ arg.pattern = <<0, 1, 2, 3>>
    /\ ret.y = ret.x + 1
    /\ {SA[ret.x], SA[ret.y]} = {0, 4}

\* C16 - basic_inv_psi(fmi, i) is one LF-mapping step: it returns 0 exactly
\* when i == primary, and for every other row i in [0, L] it returns
\* L2(c) + rank(c at the adjusted position) >= 1, the row of the suffix that
\* starts one coordinate before the suffix of row i.
C16_BasicInvPsi ==
    op = "basic_inv_psi"
        => /\ (ret = 0) <=> (arg.i = primary(fmi))
           /\ arg.i # primary(fmi) => ret \in 1..length(fmi)
           /\ SA[ret] = (SA[arg.i] + length(fmi)) % (length(fmi) + 1)
           /\ ret = walk_step(fmi, arg.i)

\* a step from a row past the primary row, where the position is adjusted
C16_Witness ==
    /\ op = "basic_inv_psi"
    /\ arg.i > primary(fmi)
    /\ ret >= 1
    /\ ret # arg.i
    /\ SA[ret] + 1 = SA[arg.i]

\* C17 - match_reverse is the mirror of match: match_reverse(fmi, P, n) is
\* the range match(fmi, reverse(P), n) returns, for patterns of symbols
\* 0..3 and of ambiguous codes alike, the empty results included.
C17_Mirror ==
    /\ op = "match_reverse"
           => ret = match(fmi, Reverse(arg.pattern), arg.pattern_len)
    /\ op = "match"
           => ret = match_reverse(fmi, Reverse(arg.pattern), arg.pattern_len)

\* a pattern that is not its own mirror, found in the text by match_reverse
C17_Witness ==
    /\ op = "match_reverse"
    /\ arg.pattern # Reverse(arg.pattern)
    /\ ret.x <= ret.y
    /\ Cardinality(Occ(text, Reverse(arg.pattern))) = ret.y - ret.x + 1

\* C18 - Once empty, always empty: the update c_rank = rank(fmi, [x-1, y], c),
\* x' = L2(c) + c_rank.x + 1, y' = L2(c) + c_rank.y applied to a range with
\* x > y yields x' > y' for every symbol c in 0..3; hence match and
\* match_reverse, which stop at the first empty range, return an empty range
\* exactly when the loop that consumes every symbol ends with one.
C18_OnceEmpty ==
    /\ op = "match_update" => ret.x > ret.y
    /\ op = "match"
           => LET all == match_loop_unguarded(fmi, arg.pattern,
                             arg.pattern_len - 1, [x |-> 0, y |-> length(fmi)])
              IN  (ret.x > ret.y) <=> (all.x > all.y)
    /\ op = "match_reverse"
           => LET all == match_loop_unguarded(fmi, Reverse(arg.pattern),
                             arg.pattern_len - 1, [x |-> 0, y |-> length(fmi)])
              IN  (ret.x > ret.y) <=> (all.x > all.y)

\* an empty range other than (1, 0) updated with a symbol the text holds
C18_Witness ==
    /\ op = "match_update"
    /\ arg.range.x > arg.range.y + 1
    /\ count(fmi, arg.c) >= 1
    /\ arg.range.y >= primary(fmi)
    /\ ret.x > ret.y
    /\ ret.x > L2(fmi, arg.c) + 1

\* C14 - Termination of coordinate recovery: for every valid index and
\* every start row i in [0, L], the walk loop of locate, inv_psi and
\* locate_ssa_iterator, once called, eventually reaches a sampled row and
\* returns.
C14_WalkTerminates ==
    \A name \in WalkOps :
        (thr[1].pc = "loop" /\ thr[1].op = name)
            ~> (thr[1].pc = "done" /\ thr[1].op = name /\ sa_has(fmi, thr[1].j))

\* a walk that returned after it had stepped from an unsampled start row
C14_Witness ==
    /\ thr[1].pc = "done"
    /\ thr[1].op \in WalkOps
    /\ ~sa_has(fmi, thr[1].row)
    /\ sa_has(fmi, thr[1].j)
    /\ thr[1].t >= 1

\* C15 - Walk length bound: for every start row i in [0, L], the number t
\* of LF-mapping steps locate, inv_psi and locate_ssa_iterator take before
\* a sampled row is reached is below the sampling interval, whatever the
\* text length L.
C15_WalkBound ==
    (thr[1].pc \in {"loop", "done"} /\ thr[1].op \in WalkOps)
        => /\ thr[1].t < interval(fmi)
           /\ (thr[1].pc = "done" /\ thr[1].op # "locate")
                  => thr[1].ret_range.y < interval(fmi)

\* a walk that took the most steps the interval allows, on a text longer
\* than the interval
C15_Witness ==
    /\ thr[1].pc = "done"
    /\ thr[1].op = "inv_psi"
    /\ interval(fmi) >= 2
    /\ length(fmi) > interval(fmi)
    /\ thr[1].ret_range.y = interval(fmi) - 1

\* C19 - Range invariant: at every iteration of match / match_reverse
\* started from [0, L], and for the returned value, the range has x > y or
\* 0 <= x <= y <= L; once a symbol c has been consumed a non-empty range
\* lies inside the block [L2(c)+1, L2(c)+count(c)] of the rows that start
\* with c.
C19_RangeInvariant ==
    (thr[1].pc \in {"loop", "done"} /\ thr[1].op \in {"match", "match_reverse"})
        => LET s == thr[1]
               r == IF s.pc = "done" THEN s.ret_range ELSE s.range
           IN  /\ r.x > r.y \/ (0 <= r.x /\ r.x <= r.y /\ r.y <= length(fmi))
               /\ (Consumed(s) >= 1 /\ r.x <= r.y)
                      => /\ L2(fmi, LastSym(s)) + 1 <= r.x
                         /\ r.y <= L2(fmi, LastSym(s)) + count(fmi, LastSym(s))

\* a search that returned a range of two rows or more after two symbols
C19_Witness ==
    /\ thr[1].pc = "done"
    /\ thr[1].op = "match"
    /\ Consumed(thr[1]) = 2
    /\ thr[1].ret_range.x < thr[1].ret_range.y
    /\ thr[1].ret_range.x >= L2(fmi, LastSym(thr[1])) + 1

\* C20 - Read-only sharing: no query changes the index (BWT, primary,
\* counts, L2, sampled suffix array), so under every interleaving of the
\* steps of concurrent queries on one index each query returns what it
\* returns when run alone.
C20_ReadOnlySharing ==
    /\ IndexIntact
    /\ \A p \in Threads :
        thr[p].pc = "done"
            => /\ thr[p].ret = Alone(fmi, thr[p]).ret
               /\ thr[p].ret_range = Alone(fmi, thr[p]).ret_range

\* thread 2 ran a whole walk from an unsampled row and returned the row's
\* coordinate while thread 1 was inside its search, one symbol consumed
C20_Witness ==
    /\ thr[1].pc = "loop"
    /\ thr[1].op = "match"
    /\ Consumed(thr[1]) >= 1
    /\ thr[1].range.x <= thr[1].range.y
    /\ thr[2].pc = "done"
    /\ thr[2].op = "locate"
    /\ thr[2].t >= 1
    /\ thr[2].ret = SA[thr[2].row]

\* C22 - Split locate equals locate: for every row i in [0, L],
\* lookup_ssa_iterator(fmi, locate_ssa_iterator(fmi, i)) is locate(fmi, i),
\* and the row x of the pair locate_ssa_iterator returns is a sampled row,
\* so the unchecked fetch of lookup_ssa_iterator succeeds.
C22_SplitLocate ==
    /\ op = "locate_ssa_iterator"
           => /\ sa_has(fmi, ret.x)
              /\ lookup_ssa_iterator(fmi, ret) = locate(fmi, arg.i)
    /\ op = "lookup_ssa_iterator"
           => \A i \in 0..length(fmi) :
                  arg.it = locate_ssa_iterator(fmi, i)
                      => (sa_has(fmi, arg.it.x) /\ ret = locate(fmi, i))

\* the lookup of the pair found from an unsampled row gives the row's
\* coordinate
C22_Witness ==
    /\ op = "lookup_ssa_iterator"
    /\ arg.it.y >= 1
    /\ \E i \in 0..length(fmi) :
           /\ ~sa_has(fmi, i)
           /\ arg.it = locate_ssa_iterator(fmi, i)
           /\ ret = SA[i]

\* C23 - inv_psi(fmi, i) walks as locate does and returns (j, t): j is the
\* first sampled row on the LF orbit of i (j = i and t = 0 when i is
\* sampled), t the number of LF steps taken; locate(fmi, i) = fetch(j) + t,
\* and inv_psi(fmi, i) = locate_ssa_iterator(fmi, i), for every i in [0, L].
C23_InvPsi ==
    op = "inv_psi"
        => /\ sa_has(fmi, ret.x)
           /\ ret.x = LFIter(fmi, arg.i, ret.y)
           /\ \A n \in 0..(ret.y - 1) : ~sa_has(fmi, LFIter(fmi, arg.i, n))
           /\ sa_has(fmi, arg.i) => ret = [x |-> arg.i, y |-> 0]
           /\ locate(fmi, arg.i) = Add(sa_fetch(fmi, ret.x).suffix, ret.y)
           /\ ret = locate_ssa_iterator(fmi, arg.i)

\* a walk of one step or more that ended on another row
C23_Witness ==
    /\ op = "inv_psi"
    /\ ret.y >= 1
    /\ ret.x # arg.i
    /\ sa_has(fmi, ret.x)
    /\ SA[ret.x] + ret.y = SA[arg.i]

\* C25 - Every step of the walk of inv_psi, locate and locate_ssa_iterator
\* maps the row j to basic_inv_psi(fmi, j): for j # primary the symbol c is
\* read at the adjusted position (j if j < primary, else j-1) and
\* rank(fmi, j, c) with the unadjusted j is rank(rank_dict, adjusted j, c),
\* the sentinel adjustment applied once, also for j = L; for j = primary the
\* next row is 0.
C25_StepIsBasicInvPsi ==
    op = "walk_step"
        => /\ ret = basic_inv_psi(fmi, arg.j)
           /\ arg.j = primary(fmi) => ret = 0
           /\ arg.j # primary(fmi)
                  => LET k == Adjusted(fmi, arg.j)
                         c == fmi.bwt[k + 1]
                     IN  /\ rank(fmi, arg.j, c) = dict_rank(fmi, k, c)
                         /\ ret = L2(fmi, c) + dict_rank(fmi, k, c)

\* a step from the last row L, past the primary row
C25_Witness ==
    /\ op = "walk_step"
    /\ arg.j = length(fmi)
    /\ arg.j > primary(fmi)
    /\ primary(fmi) >= 1
    /\ ret >= 1
    /\ ret = basic_inv_psi(fmi, arg.j)

\* C26 - Walk stays in range: for every valid index and every start row
\* i <= L, every row j the walk of inv_psi / locate / locate_ssa_iterator
\* produces satisfies 0 <= j <= L: the assertion j <= fmi.length() after
\* each LF step never fails.
C26_WalkInRange ==
    (thr[1].pc \in {"loop", "done"} /\ thr[1].op \in WalkOps)
        => /\ 0 <= thr[1].j
           /\ thr[1].j <= length(fmi)
           /\ thr[1].j = LFIter(fmi, thr[1].row, thr[1].t)

\* a walk that stepped onto the last row L
C26_Witness ==
    /\ thr[1].pc = "loop"
    /\ thr[1].op \in WalkOps
    /\ thr[1].t >= 1
    /\ length(fmi) >= 2
    /\ thr[1].j = length(fmi)

C28_MatchComposes ==
    /\ op = "match_split"
           => LET P    == arg.a \o arg.b
                  full == [x |-> 0, y |-> length(fmi)]
              IN  /\ ret = match(fmi, P, Len(P))
                  /\ match(fmi, P, Len(P)) = match_in(fmi, P, Len(P), full)
                  /\ arg.b = <<>> => match(fmi, arg.b, 0) = full
                  /\ arg.a = <<>> => ret = match(fmi, arg.b, Len(arg.b))
    /\ op = "match_in"
           => /\ ret = arg.in_range
              /\ match_in(fmi, <<>>, 0, arg.in_range) = arg.in_range

\* two non-empty halves, the second found in the text, the first narrowing
\* its range
C28_Witness ==
    /\ op = "match_split"
    /\ arg.a # <<>>
    /\ arg.b # <<>>
    /\ ret.x <= ret.y
    /\ ret # match(fmi, arg.b, Len(arg.b))
    /\ Cardinality(Occ(text, arg.a \o arg.b)) = ret.y - ret.x + 1

\* C29 - Rank counts exactly the stored symbols: for every k in [0, L] the
\* sum over c in 0..3 of rank(fmi, k, c) is k + 1 when k < primary and k
\* when k >= primary; so rank(fmi, primary, c) = rank(fmi, primary - 1, c)
\* for every c: the sentinel row adds no occurrence.
C29_RankSums ==
    /\ (op = "rank4" /\ arg.k # NegOne)
           => Sum4(ret) = IF arg.k < primary(fmi) THEN arg.k + 1 ELSE arg.k
    /\ (op = "rank" /\ arg.k # NegOne)
           => /\ Sum4([c \in Sigma |-> rank(fmi, arg.k, c)])
                     = IF arg.k < primary(fmi) THEN arg.k + 1 ELSE arg.k
              /\ arg.k = primary(fmi)
                     => ret = rank(fmi, Dec(primary(fmi)), arg.c)

\* the four counts at a row past the primary row and short of L
C29_Witness ==
    /\ op = "rank4"
    /\ arg.k # NegOne
    /\ primary(fmi) >= 1
    /\ arg.k > primary(fmi)
    /\ arg.k < length(fmi)
    /\ Sum4(ret) = arg.k

\* C30 - LF-mapping is a single-cycle permutation: for every valid index
\* basic_inv_psi is a bijection of [0, L] onto itself, and iterating it from
\* any row visits all L + 1 rows before it returns to the start; so a
\* sampled suffix array with a sampled row is reached from every start row.
C30_SingleCycle ==
    op = "basic_inv_psi"
        => LET rows == 0..length(fmi) IN
           /\ ret = LFIter(fmi, arg.i, 1)
           /\ {basic_inv_psi(fmi, i) : i \in rows} = rows
           /\ \A i1, i2 \in rows :
                  basic_inv_psi(fmi, i1) = basic_inv_psi(fmi, i2) => i1 = i2
           /\ {LFIter(fmi, arg.i, n) : n \in rows} = rows
           /\ \A n \in 1..length(fmi) : LFIter(fmi, arg.i, n) # arg.i
           /\ LFIter(fmi, arg.i, length(fmi) + 1) = arg.i
           /\ \E n \in rows : sa_has(fmi, LFIter(fmi, arg.i, n))

\* on a text of three symbols the orbit of the primary row passes row 0
\* first and comes back after four steps
C30_Witness ==
    /\ op = "basic_inv_psi"
    /\ length(fmi) = 3
    /\ arg.i = primary(fmi)
    /\ ret = 0
    /\ Cardinality({LFIter(fmi, arg.i, n) : n \in 0..3}) = 4
    /\ LFIter(fmi, arg.i, 4) = arg.i

\* C27 (as stated) - for every logical index in [0, L] and every primary in
\* [0, L], each index at which the stored BWT is read and each index handed
\* to the rank dictionary after the sentinel adjustment lies in [0, L-1].
C27_Original ==
    LogicalArgs \subseteq 0..length(fmi)
        => PhysicalReads \subseteq 0..(length(fmi) - 1)

\* C27 (amended) - for every logical index in [0, L] and every primary in
\* [0, L], each index at which the stored BWT is read (basic_inv_psi, the
\* walk loop) lies in [0, L-1], and so does each index rank / rank4 (point
\* and range forms) hand to the rank dictionary, except for logical index 0
\* when primary = 0 and L >= 1: it is decremented to index_type(-1), the
\* empty prefix. With primary >= 1 every index lies in [0, L-1].
C27_NoOutOfRange ==
    LogicalArgs \subseteq 0..length(fmi)
        => /\ PhysicalReads \subseteq (0..(length(fmi) - 1)) \cup {NegOne}
           /\ NegOne \in PhysicalReads
                  => /\ primary(fmi) = 0
                     /\ 0 \in LogicalArgs
                     /\ op \in {"rank", "rank4", "rank_range", "rank4_range"}
           /\ op \in {"basic_inv_psi", "walk_step"}
                  => bwt_reads(fmi, CHOOSE i \in LogicalArgs : TRUE)
                         \subseteq 0..(length(fmi) - 1)

\* the last row L, past the primary row, read at slot L-1
C27_Witness ==
    /\ op = "basic_inv_psi"
    /\ arg.i = length(fmi)
    /\ primary(fmi) < arg.i
    /\ PhysicalReads = {length(fmi) - 1}

\* C21 - Precondition checking: in every query that takes a row index
\* (rank, rank4, basic_inv_psi, inv_psi, locate, locate_ssa_iterator) a row
\* index greater than the text length L is caught by a debug-time assertion
\* before any table is read.
C21_IndexAsserted ==
    (/\ op \in {"rank", "rank4", "basic_inv_psi"} \cup WalkOps
     /\ arg.i > length(fmi)
     /\ ~(op \in {"rank", "rank4"} /\ arg.i = NegOne))
        => (ret.asserted /\ ret.reads = {})

\* rank called with L + 1: no assertion, slot L handed to the dictionary
C21_Witness ==
    /\ op = "rank"
    /\ arg.i = length(fmi) + 1
    /\ ~ret.asserted
    /\ ret.reads = {length(fmi)}
    /\ ~dict_in_bounds(fmi, length(fmi))

====
